---- MODULE Spec2Model ----
(***************************************************************************)
(* Model of example/widgets/widget.py: OrangeProductionWidget.              *)
(*                                                                         *)
(* The widget is a param.Parameterized object.  Assigning a parameter      *)
(* (records, feedback) runs its watchers synchronously inside the          *)
(* assignment, and assigning a pane property (css_classes) updates the     *)
(* pane.  The handler _add_record is therefore modelled one assignment at  *)
(* a time: every state of the model is a point at which some viewer        *)
(* (table, chart, feedback pane) has just been notified, or at which the   *)
(* handler is not running (pc = "idle").                                   *)
(*                                                                         *)
(* Instants are integers, in microseconds (the resolution of               *)
(* datetime.datetime).  An optional value is <<>> (Python's None) or <<v>>. *)
(* A str built by an f-string is the tuple of its pieces.                  *)
(***************************************************************************)
EXTENDS Integers, Sequences, FiniteSets, TLC

\* ---- bounds of the model
MaxTick == 2        \* instants offered to the form: 0 .. MaxTick half seconds
MaxAmount == 1      \* amounts offered to the form: -1 .. MaxAmount
MaxRecords == 3     \* the log is not grown beyond this length

\* ---- units
MillisPerSecond == 1000
MicrosPerSecond == MillisPerSecond * MillisPerSecond

None == <<>>
Some(v) == <<v>>
Value(opt) == opt[1]

Instants == {k * (MicrosPerSecond \div 2) : k \in 0..MaxTick}
Amounts == (-1)..MaxAmount

VARIABLES
    records,        \* self.records: the rows of the DataFrame, in index order
    new_timestamp,  \* self.new_timestamp (= timestamp_input.value)
    new_amount,     \* self.new_amount (= amount_input.value)
    feedback,       \* self.feedback
    css_classes,    \* self._feedback_display.css_classes
    chart,          \* self._chart.object["series"]: one data sequence per series
    pc,             \* position of the handler _add_record
    old_records     \* history: self.records when the running/last _add_record began

vars == <<records, new_timestamp, new_amount, feedback, css_classes, chart, pc,
          old_records>>

\* ---- pure helpers ---------------------------------------------------------

\* DatetimePicker.from_param / IntInput.from_param link the widget's value to
\* the parameter in both directions, synchronously.
timestamp_input_value == new_timestamp
amount_input_value == new_amount

\* f"{ts:%Y-%m-%d %H:%M:%S}": the text names the whole second, the
\* microseconds are dropped.
strftime(ts) == ts \div MicrosPerSecond

\* ts.timestamp() * 1000
timestamp_ms(ts) == (ts * MillisPerSecond) \div MicrosPerSecond

timestamp_error == <<"Error: Please select a valid timestamp.">>
amount_error == <<"Error: Please enter a valid number of oranges.">>

\* (mutant) the message reports the last row of the log, not the form's values
success_message_last_row(amount, ts) ==
    <<"Record added: ", records[Len(records)].amount, " oranges at ",
      strftime(records[Len(records)].timestamp)>>

success_message(amount, ts) ==
    <<"Record added: ", amount, " oranges at ", strftime(ts)>>

\* (mutant) the error branch sets the success class
error_css_classes_pasted == <<"success">>

error_css_classes == <<"error">>
success_css_classes == <<"success">>

\* DataFrame({"timestamp": [self.new_timestamp], "amount": [self.new_amount]})
new_row(ts, amount) == [timestamp |-> ts, amount |-> amount]

\* (mutant) the new row overwrites the last row instead of following it
concat_overwrite_last(df, row) ==
    IF df = <<>> THEN <<row>> ELSE SubSeq(df, 1, Len(df) - 1) \o <<row>>

\* concat([self.records, new_row], ignore_index=True)
concat(df, row) == Append(df, row)

is_sorted(df) ==
    \A i \in 1..(Len(df) - 1) : df[i].timestamp <= df[i + 1].timestamp

\* (mutant) the sort is left out
sort_values_omitted(df) == {df}

\* (mutant) the sort is descending
sort_values_descending(df) ==
    {s \in {[i \in 1..Len(df) |-> df[p[i]]] : p \in Permutations(1..Len(df))} :
        \A i \in 1..(Len(s) - 1) : s[i].timestamp >= s[i + 1].timestamp}

\* .sort_values("timestamp").reset_index(drop=True): kind defaults to
\* "quicksort", which pandas documents as not stable, so rows with equal
\* timestamps may come out in any order.  The set of possible results.
sort_values(df) ==
    {s \in {[i \in 1..Len(df) |-> df[p[i]]] : p \in Permutations(1..Len(df))} :
        is_sorted(s)}

\* the "data" list of _update_chart's single series
series_data(df) ==
    [i \in 1..Len(df) |-> <<timestamp_ms(df[i].timestamp), df[i].amount>>]

\* (mutant) the chart is drawn from the log as it was before the assignment
update_chart_stale(df) == <<series_data(records)>>

\* _update_chart: option["series"] has one line series
update_chart(df) == <<series_data(df)>>

\* _empty_chart_option: "series": []
empty_chart_option == <<>>

\* the first validation of _add_record
timestamp_missing == timestamp_input_value = None

\* (mutant) the sign test is the wrong way round
amount_invalid_flipped ==
    IF amount_input_value = None THEN TRUE ELSE Value(new_amount) > 0

\* (mutant) the sign test is left out
amount_invalid_no_sign == amount_input_value = None

\* the second validation of _add_record; Python's "or" does not evaluate its
\* right operand when the left one is true
amount_invalid ==
    IF amount_input_value = None THEN TRUE ELSE Value(new_amount) < 0

\* (mutant) the amount is validated before the timestamp
validate_amount_first ==
    IF amount_invalid THEN "amount"
    ELSE IF timestamp_missing THEN "timestamp"
    ELSE "ok"

\* the two validations of _add_record in order; the first failure returns
validate ==
    IF timestamp_missing THEN "timestamp"
    ELSE IF amount_invalid THEN "amount"
    ELSE "ok"

\* ---- state machine --------------------------------------------------------

Init ==
    /\ records = <<>>
    /\ new_timestamp = None
    /\ new_amount = None
    /\ feedback = <<>>
    /\ css_classes = <<>>
    /\ chart = empty_chart_option
    /\ pc = "idle"
    /\ old_records = <<>>

\* the user picks or clears the timestamp in the DatetimePicker
EditTimestamp ==
    /\ pc = "idle"
    /\ \E t \in {None} \cup {Some(i) : i \in Instants} : new_timestamp' = t
    /\ new_timestamp' # new_timestamp
    /\ UNCHANGED <<records, new_amount, feedback, css_classes, chart, pc, old_records>>

\* the user types or clears the amount in the IntInput
EditAmount ==
    /\ pc = "idle"
    /\ \E a \in {None} \cup {Some(i) : i \in Amounts} : new_amount' = a
    /\ new_amount' # new_amount
    /\ UNCHANGED <<records, new_timestamp, feedback, css_classes, chart, pc, old_records>>

\* click, first validation fails: self.feedback = "Error: ... timestamp."
AddRecordTimestampError ==
    /\ pc = "idle"
    /\ validate = "timestamp"
    /\ feedback' = timestamp_error
    /\ pc' = "css_error"
    /\ old_records' = records
    /\ UNCHANGED <<records, new_timestamp, new_amount, css_classes, chart>>

\* click, second validation fails: self.feedback = "Error: ... oranges."
AddRecordAmountError ==
    /\ pc = "idle"
    /\ validate = "amount"
    /\ feedback' = amount_error
    /\ pc' = "css_error"
    /\ old_records' = records
    /\ UNCHANGED <<records, new_timestamp, new_amount, css_classes, chart>>

\* self._feedback_display.css_classes = ["error"]; return
SetCssError ==
    /\ pc = "css_error"
    /\ css_classes' = error_css_classes
    /\ pc' = "idle"
    /\ UNCHANGED <<records, new_timestamp, new_amount, feedback, chart, old_records>>

\* click, both validations pass: self.records = concat(...).sort_values(...);
\* the assignment runs the watcher _update_chart before it returns
AddRecordInsert ==
    /\ pc = "idle"
    /\ validate = "ok"
    /\ Len(records) < MaxRecords
    /\ \E df \in sort_values(concat(records,
                    new_row(Value(new_timestamp), Value(new_amount)))) :
          /\ records' = df
          /\ chart' = update_chart(df)
    /\ pc' = "feedback_success"
    /\ old_records' = records
    /\ UNCHANGED <<new_timestamp, new_amount, feedback, css_classes>>

\* self.feedback = f"Record added: ..."
AddRecordFeedback ==
    /\ pc = "feedback_success"
    /\ feedback' = success_message(Value(new_amount), Value(new_timestamp))
    /\ pc' = "css_success"
    /\ UNCHANGED <<records, new_timestamp, new_amount, css_classes, chart, old_records>>

\* (mutant) the form is reset after a record was added
SetCssSuccessAndReset ==
    /\ pc = "css_success"
    /\ css_classes' = success_css_classes
    /\ new_timestamp' = None
    /\ new_amount' = None
    /\ pc' = "idle"
    /\ UNCHANGED <<records, feedback, chart, old_records>>

\* self._feedback_display.css_classes = ["success"]
SetCssSuccess ==
    /\ pc = "css_success"
    /\ css_classes' = success_css_classes
    /\ pc' = "idle"
    /\ UNCHANGED <<records, new_timestamp, new_amount, feedback, chart, old_records>>

Next ==
    \/ EditTimestamp
    \/ EditAmount
    \/ AddRecordTimestampError
    \/ AddRecordAmountError
    \/ SetCssError
    \/ AddRecordInsert
    \/ AddRecordFeedback
    \/ SetCssSuccess

Spec == Init /\ [][Next]_vars

\* ---- vocabulary of the properties -----------------------------------------

\* a step of the handler _add_record / the step that completes it
SubmitStep == ~(pc = "idle" /\ pc' = "idle")
SubmitDone == pc # "idle" /\ pc' = "idle"

DraftTimestampMissing == new_timestamp = <<>>
DraftAmountInvalid == IF new_amount = <<>> THEN TRUE ELSE new_amount[1] < 0
DraftInvalid == DraftTimestampMissing \/ DraftAmountInvalid
DraftRecord == [timestamp |-> new_timestamp[1], amount |-> new_amount[1]]

\* the kind tag the feedback pane carries
Kind == IF css_classes = <<>> THEN "none" ELSE css_classes[1]
IsErrorMessage ==
    Len(feedback) = 1 /\ feedback[1] \in
        {"Error: Please select a valid timestamp.",
         "Error: Please enter a valid number of oranges."}
IsSuccessMessage == Len(feedback) = 4 /\ feedback[1] = "Record added: "

Count(df, r) == Cardinality({i \in DOMAIN df : df[i] = r})
Rows(df) == {df[i] : i \in DOMAIN df}
TimestampsDistinct(df) ==
    \A i, j \in DOMAIN df : i # j => df[i].timestamp # df[j].timestamp

\* appending row to the sorted log df and sorting stably by timestamp: the
\* row lands behind the last row whose timestamp is not later
StableInsert(df, row) ==
    LET k == Cardinality({i \in DOMAIN df : df[i].timestamp <= row.timestamp})
    IN  SubSeq(df, 1, k) \o <<row>> \o SubSeq(df, k + 1, Len(df))

\* the data points the chart pane shows
ChartPoints == IF chart = <<>> THEN <<>> ELSE chart[1]

\* ---- C1 --------------------------------------------------------------------
\* C1: in every state the log is sorted ascending by timestamp: every
\* adjacent pair has records[i].timestamp <= records[i+1].timestamp.
C1_LogSorted ==
    \A i \in 1..(Len(records) - 1) :
        records[i].timestamp <= records[i + 1].timestamp

\* a full log whose latest record was submitted last and sorted to the front
C1_Witness ==
    /\ pc = "idle"
    /\ Len(records) = 3
    /\ old_records = Tail(records)
    /\ records[1].timestamp < records[2].timestamp
    /\ records[2].timestamp < records[3].timestamp

\* ---- C2 --------------------------------------------------------------------
\* C2: every step of a submit whose draft is invalid (timestamp missing, or
\* amount missing or negative) leaves the log and the chart series unchanged.
C2_InvalidSubmitKeepsLog ==
    [][(SubmitStep /\ DraftInvalid) => (records' = records /\ chart' = chart)]_vars

\* a submit of a negative amount against a log that holds records has set its
\* error message and the log is the one the submit started from
C2_Witness ==
    /\ pc = "css_error"
    /\ new_timestamp # <<>>
    /\ new_amount = <<-1>>
    /\ Len(records) >= 1
    /\ records = old_records
    /\ ChartPoints # <<>>

\* ---- C3 --------------------------------------------------------------------
\* what a completed submit leaves in the feedback, given the two messages
C3_Outcome(timestamp_message, amount_message) ==
    IF DraftTimestampMissing
    THEN feedback = timestamp_message /\ Kind = "error"
    ELSE IF DraftAmountInvalid
    THEN feedback = amount_message /\ Kind = "error"
    ELSE Kind # "error" /\ feedback # timestamp_message /\ feedback # amount_message

\* C3 (as claimed): a completed submit leaves kind error with message "Please
\* select a valid timestamp." when the timestamp is missing, kind error with
\* "Please enter a valid number of oranges." when the timestamp is present
\* and the amount is missing or negative, and no error otherwise.
C3_Original ==
    [][SubmitDone =>
        C3_Outcome(<<"Please select a valid timestamp.">>,
                   <<"Please enter a valid number of oranges.">>)']_vars

\* C3 (amended): the same, the messages being "Error: Please select a valid
\* timestamp." and "Error: Please enter a valid number of oranges.".
C3_ErrorMessages ==
    [][SubmitDone =>
        C3_Outcome(<<"Error: Please select a valid timestamp.">>,
                   <<"Error: Please enter a valid number of oranges.">>)']_vars

\* a draft with both fields invalid was submitted: the timestamp message won
C3_Witness ==
    /\ pc = "css_error"
    /\ new_timestamp = <<>>
    /\ new_amount = <<-1>>
    /\ feedback = <<"Error: Please select a valid timestamp.">>

C6_ChartMatchesLog ==
    /\ Len(chart) <= 1
    /\ Len(ChartPoints) = Len(records)
    /\ \A i \in DOMAIN records :
           ChartPoints[i] = <<records[i].timestamp \div 1000, records[i].amount>>

\* a submit completed and the chart shows two points in time order
C6_Witness ==
    /\ pc = "idle"
    /\ Len(records) >= 2
    /\ Len(ChartPoints) >= 2
    /\ ChartPoints[1][1] < ChartPoints[2][1]
    /\ ChartPoints[1][2] # ChartPoints[2][2]

\* ---- C7 --------------------------------------------------------------------
\* the success message of the draft's record
C7_SuccessMessage ==
    <<"Record added: ", new_amount[1], " oranges at ", new_timestamp[1] \div 1000000>>

\* C7 (as claimed): at no point of a running submit is the log already
\* changed while the feedback is not yet the success message of the new
\* record.
C7_Original ==
    (pc # "idle" /\ records # old_records) => feedback = C7_SuccessMessage

\* C7 (amended): when a submit completes, either the log is the one it
\* started from and the feedback is an error, or the log is one record
\* longer, holds the draft's record, and the feedback is the success message
\* of that record; and between submits log and feedback do not change.
C7_AtomicBetweenCalls ==
    [][/\ SubmitDone =>
            (\/ /\ records' = old_records'
                /\ IsErrorMessage' /\ Kind' = "error"
             \/ /\ Len(records') = Len(old_records') + 1
                /\ DraftRecord' \in Rows(records')
                /\ feedback' = C7_SuccessMessage' /\ Kind' = "success")
       /\ (pc = "idle" /\ pc' = "idle") =>
            UNCHANGED <<records, feedback, css_classes>>
      ]_vars

\* a submit completed that inserted its record in front of an earlier one
C7_Witness ==
    /\ pc = "idle"
    /\ Kind = "success"
    /\ Len(records) = Len(old_records) + 1
    /\ Len(records) >= 2
    /\ ~DraftInvalid
    /\ records[1] = DraftRecord
    /\ records[Len(records)] # DraftRecord
    /\ feedback = C7_SuccessMessage

\* ---- C8 --------------------------------------------------------------------
\* C8: every record of the log has amount >= 0.
C8_AmountsNonNegative == \A i \in DOMAIN records : records[i].amount >= 0

\* a negative amount was submitted against a log that holds a record
C8_Witness ==
    /\ pc = "idle"
    /\ Kind = "error"
    /\ new_timestamp # <<>>
    /\ new_amount = <<-1>>
    /\ feedback = <<"Error: Please enter a valid number of oranges.">>
    /\ Len(records) >= 1

\* ---- C9 --------------------------------------------------------------------
\* C9: no step of a submit changes the draft's timestamp or amount.
C9_DraftUntouched ==
    [][SubmitStep => UNCHANGED <<new_timestamp, new_amount>>]_vars

\* the same valid draft was submitted twice: the log holds its record twice
C9_Witness ==
    /\ pc = "idle"
    /\ Kind = "success"
    /\ ~DraftInvalid
    /\ Len(records) = 2
    /\ Len(old_records) = 1
    /\ records[1] = DraftRecord
    /\ records[2] = DraftRecord

\* ---- C10 -------------------------------------------------------------------
\* C10 (as claimed): in no state is an error message shown with the success
\* tag or a "Record added" message with the error tag.
C10_Original ==
    /\ ~(IsErrorMessage /\ Kind = "success")
    /\ ~(IsSuccessMessage /\ Kind = "error")

\* C10 (amended): while no submit is running the kind belongs to the message
\* (none with the empty message, error with an error message, success with a
\* "Record added" message), and it is error exactly when the last submit
\* left the log as it was and success exactly when it added a record.
C10_KindMatchesBetweenCalls ==
    pc = "idle" =>
        /\ Kind \in {"none", "error", "success"}
        /\ Kind = "none" <=> feedback = <<>>
        /\ Kind = "error" <=> IsErrorMessage
        /\ Kind = "success" <=> IsSuccessMessage
        /\ Kind = "none" => records = <<>>
        /\ Kind = "error" => records = old_records
        /\ Kind = "success" => Len(records) = Len(old_records) + 1

\* an invalid submit completed after an earlier one had added a record
C10_Witness ==
    /\ pc = "idle"
    /\ Kind = "error"
    /\ IsErrorMessage
    /\ Len(records) >= 1
    /\ records = old_records

====
